---- MODULE Spec2Model ----
(***************************************************************************)
(* State-machine model of the block scan engine of                        *)
(* apps/crossing-the-narrow-sea/src/scan-runner.ts.  The file holds two   *)
(* ordered-commit implementations: the exported runScan (an array queue   *)
(* as height allocator and createMutex around the commit tracker) and a   *)
(* script main (promise-chain locks around both allocator and tracker).   *)
(* The variable variant says which of the two a behaviour runs.           *)
(* The unordered script of capture-consensus.ts is modelled by NaiveSpec.  *)
(*                                                                         *)
(* One run: resolve the start from the persisted checkpoint, spawn        *)
(* blockConcurrency workers; each worker takes a height, fetches the      *)
(* block (three awaited RPCs), hands it to the synchronous Event Sink     *)
(* processXdmEvents, reports to markCompleted, and on any exception       *)
(* sleeps the backoff and retries the same height.  The checkpoint store  *)
(* (sqlite) outlives runs; everything else is rebuilt by each run.        *)
(***************************************************************************)
EXTENDS Integers, Sequences, FiniteSets, TLC

\* ---------------------------------------------------------------- bounds
MaxHeight == 2      \* heights are 1..MaxHeight
MaxWorkers == 2     \* blockConcurrency ranges over 1..MaxWorkers
MaxFail == 1        \* transient RPC / Event Sink failures per run
MaxSetFail == 1     \* throwing checkpoint writes per run
MaxRuns == 2        \* runs (process starts) per behaviour
MaxBackoff == 3     \* backoff delays (base and cap) range over 1..MaxBackoff

\* ------------------------------------------------------- program values
\* getLastProcessedBlockHeight returning null/undefined: no checkpoint row.
Null == -1
Heights == 1..MaxHeight
Workers == 1..MaxWorkers
Variants == {"runScan", "main"}

Max(a, b) == IF a >= b THEN a ELSE b
Min(a, b) == IF a <= b THEN a ELSE b

VARIABLES
  variant,           \* which implementation runs: "runScan" or "main"
  blockConcurrency,  \* opts.blockConcurrency / BLOCK_CONCURRENCY
  start, end,        \* requested range: opts.start, opts.end / START, END
  retryBackoffMs,    \* opts.retryBackoffMs / RETRY_BACKOFF_MS (base delay)
  retryMaxBackoffMs, \* opts.retryMaxBackoffMs / RETRY_MAX_BACKOFF_MS (cap)
  lastProcessed,     \* the Checkpoint Store row (Null: absent); durable
  runState,          \* "idle" | "running" | "resolved"
  scanStart,         \* resolved start of the current run
  heightQueue,       \* runScan: remaining heights (array)
  nextHeight,        \* main: allocation cursor
  allocationLock,    \* main: callers chained on allocationLock, in order
  nextToCommit,      \* commit cursor
  completedHeights,  \* pending completion set
  commitLock,        \* callers chained on the commit mutex / commitLock
  lockRejected,      \* main: commitLock is a rejected promise
  pc, h, backoff,    \* per worker: position, height in hand, next delay
  rpcFails, setFails, runs,          \* budgets used
  issued,            \* history: times each height was returned by getNextHeight
  sinkOnce,          \* history: heights processXdmEvents returned for, this run
  sinkTwice,         \* history: heights it returned for more than once, this run
  reported,          \* history: heights added by markCompleted, this run
  writes,            \* history: values written to the store by this run
  setThrew,          \* history: a checkpoint write threw in this run
  resumed            \* history: this run restarted a hard-stopped run

vars == <<variant, blockConcurrency, start, end, retryBackoffMs,
          retryMaxBackoffMs, lastProcessed, runState,
          scanStart, heightQueue, nextHeight, allocationLock, nextToCommit,
          completedHeights, commitLock, lockRejected, pc, h, backoff,
          rpcFails, setFails, runs, issued, sinkOnce, sinkTwice, reported, writes,
          setThrew, resumed>>

runVars == <<variant, blockConcurrency, start, end, retryBackoffMs,
             retryMaxBackoffMs, runState, scanStart, runs, resumed>>
allocVars == <<heightQueue, nextHeight, allocationLock, issued>>
commitVars == <<nextToCommit, completedHeights, commitLock, lockRejected,
                lastProcessed, reported, writes, setThrew, setFails>>
sinkVars == <<sinkOnce, sinkTwice>>

\* ------------------------------------------------------------- helpers
\* Mutant of resolveStart: the persisted checkpoint is ignored.
resolveStart_ignoreCheckpoint(s, resumeFrom) == s

\* Mutant of resolveStart: a resumed run starts after the checkpoint.
resolveStart_afterCheckpoint(s, resumeFrom) ==
  IF resumeFrom = Null THEN s ELSE Max(s, resumeFrom + 1)

\* Math.max(start, resumeFrom ?? start)
resolveStart(s, resumeFrom) ==
  Max(s, IF resumeFrom = Null THEN s ELSE resumeFrom)

\* Mutant of buildQueue: the length is one short (end - scanStart).
buildQueue_short(ss, e) ==
  [i \in 1..Max(e - ss, 0) |-> ss + (i - 1)]

\* Mutant of buildQueue: the length is at least one.
buildQueue_atLeastOne(ss, e) ==
  [i \in 1..Max(e - ss + 1, 1) |-> ss + (i - 1)]

\* Array.from({ length: Math.max(end - scanStart + 1, 0) }, (_, i) => scanStart + i)
buildQueue(ss, e) ==
  [i \in 1..Max(e - ss + 1, 0) |-> ss + (i - 1)]

\* Mutant of nextBackoff: the delay doubles without a cap.
nextBackoff_uncapped(b) == b * 2

\* Math.min(backoff * 2, retryMaxBackoffMs)
nextBackoff(b) == Min(b * 2, retryMaxBackoffMs)

Active == 1..blockConcurrency

Running(w) == runState = "running" /\ w \in Active

\* ---------------------------------------------------------------- Init
\* No run started yet: nothing exists but the options and the store.
NoRunYet ==
  /\ runState = "idle"
  /\ scanStart = 1
  /\ heightQueue = <<>>
  /\ nextHeight = 1
  /\ allocationLock = <<>>
  /\ nextToCommit = 1
  /\ completedHeights = {}
  /\ commitLock = <<>>
  /\ lockRejected = FALSE
  /\ pc = [w \in Workers |-> "idle"]
  /\ h = [w \in Workers |-> Null]
  /\ backoff = [w \in Workers |-> Null]
  /\ rpcFails = 0 /\ setFails = 0 /\ runs = 0
  /\ issued = [x \in Heights |-> 0]
  /\ sinkOnce = {} /\ sinkTwice = {}
  /\ reported = {}
  /\ writes = <<>>
  /\ setThrew = FALSE
  /\ resumed = FALSE

\* The configuration (implementation, worker count, requested range, backoff
\* delays) is that of every run of the behaviour: a restart re-runs the same
\* command.  The store is fresh, or holds the checkpoint c that earlier runs
\* of some other configuration left (for one, a resolved run over the single
\* height c leaves c).  The backoff is one setting: base 1, cap MaxBackoff.
Init ==
  /\ variant \in Variants
  /\ blockConcurrency \in 1..MaxWorkers
  /\ start \in Heights /\ end \in Heights
  /\ retryBackoffMs = 1 /\ retryMaxBackoffMs = MaxBackoff
  /\ lastProcessed \in {Null} \cup Heights
  /\ NoRunYet

\* Every backoff setting (a base above the cap included), for one worker on
\* a fresh store.
InitBackoff ==
  /\ variant \in Variants
  /\ blockConcurrency = 1
  /\ start \in Heights /\ end \in Heights
  /\ retryBackoffMs \in 1..MaxBackoff /\ retryMaxBackoffMs \in 1..MaxBackoff
  /\ lastProcessed = Null
  /\ NoRunYet

\* ------------------------------------------------------------ run start
\* runScan / main, in a fresh process, up to the spawning of the workers:
\* nothing of an earlier run is left but the store.
beginRun ==
  /\ runs < MaxRuns
  /\ runs' = runs + 1
  /\ runState' = "running"
  /\ scanStart' = resolveStart(start, lastProcessed)
  /\ heightQueue' = IF variant = "runScan" THEN buildQueue(scanStart', end) ELSE <<>>
  /\ nextHeight' = scanStart'
  /\ allocationLock' = <<>>
  /\ nextToCommit' = scanStart'
  /\ completedHeights' = {}
  /\ commitLock' = <<>>
  /\ lockRejected' = FALSE
  /\ pc' = [w \in Workers |-> IF w \in Active THEN "start" ELSE "idle"]
  /\ h' = [w \in Workers |-> Null]
  /\ backoff' = [w \in Workers |-> Null]
  /\ rpcFails' = 0 /\ setFails' = 0
  /\ issued' = [x \in Heights |-> 0]
  /\ sinkOnce' = {} /\ sinkTwice' = {}
  /\ reported' = {}
  /\ writes' = <<>>
  /\ setThrew' = FALSE
  /\ UNCHANGED <<variant, blockConcurrency, start, end, retryBackoffMs,
                 retryMaxBackoffMs, lastProcessed>>

\* The command is run: for the first time, or again after a resolved run.
StartRun ==
  /\ runState \in {"idle", "resolved"}
  /\ resumed' = FALSE
  /\ beginRun

\* The process is killed while the run is in progress (section 5 of the
\* design: the only way to stop a run) and the command is run again.
hardStopRestart ==
  /\ runState = "running"
  /\ resumed' = TRUE
  /\ beginRun

\* ----------------------------------------------------- height allocator
\* The worker's continuation once getNextHeight has produced x (or Null).
takeHeight(w, x) ==
  IF x = Null
    THEN /\ pc' = [pc EXCEPT ![w] = "done"]
         /\ UNCHANGED <<h, backoff, issued>>
    ELSE /\ pc' = [pc EXCEPT ![w] = "attempt"]
         /\ h' = [h EXCEPT ![w] = x]
         /\ backoff' = [backoff EXCEPT ![w] = retryBackoffMs]
         /\ issued' = [issued EXCEPT ![x] = @ + 1]

\* runScan: heightQueue.length > 0 ? heightQueue.shift()! : null
getNextHeightQueue(w) ==
  /\ Running(w) /\ variant = "runScan" /\ pc[w] = "start"
  /\ IF Len(heightQueue) > 0
       THEN takeHeight(w, Head(heightQueue)) /\ heightQueue' = Tail(heightQueue)
       ELSE takeHeight(w, Null) /\ UNCHANGED heightQueue
  /\ UNCHANGED <<runVars, nextHeight, allocationLock, commitVars, sinkVars, rpcFails>>

\* main: allocationLock = allocationLock.then(...); await allocationLock
getNextHeightCall(w) ==
  /\ Running(w) /\ variant = "main" /\ pc[w] = "start"
  /\ allocationLock' = Append(allocationLock, w)
  /\ pc' = [pc EXCEPT ![w] = "allocWait"]
  /\ UNCHANGED <<runVars, heightQueue, nextHeight, issued, h, backoff,
                 commitVars, sinkVars, rpcFails>>

\* main: the chained callback of the caller at the head of allocationLock
allocationStep(w) ==
  /\ Running(w) /\ variant = "main" /\ pc[w] = "allocWait"
  /\ Len(allocationLock) > 0 /\ Head(allocationLock) = w
  /\ allocationLock' = Tail(allocationLock)
  /\ IF nextHeight > end
       THEN takeHeight(w, Null) /\ UNCHANGED nextHeight
       ELSE takeHeight(w, nextHeight) /\ nextHeight' = nextHeight + 1
  /\ UNCHANGED <<runVars, heightQueue, commitVars, sinkVars, rpcFails>>

\* -------------------------------------------------------------- worker
\* The try block: await getBlockHash(h), await getBlock(hash), await
\* getEventsAt(...), then the synchronous processXdmEvents.  The three awaits
\* touch no shared state, so the attempt is one position, "attempt", left
\* either by an exception (attemptFail) or by the Event Sink returning.
Stages == {"getBlockHash", "getBlock", "getEventsAt", "processXdmEvents"}

\* stage rejected or threw: the catch block, about to sleep(backoff)
attemptFail(w) ==
  /\ Running(w) /\ pc[w] = "attempt"
  /\ rpcFails < MaxFail
  /\ \E stage \in Stages :
       /\ rpcFails' = rpcFails + 1
       /\ pc' = [pc EXCEPT ![w] = "sleep"]
  /\ UNCHANGED <<runVars, allocVars, commitVars, sinkVars, h, backoff>>

\* processXdmEvents returned and markCompleted(h) is called: the caller
\* joins the commit lock's chain and awaits its turn.
sinkDone(w) ==
  /\ Running(w) /\ pc[w] = "attempt"
  /\ sinkOnce' = sinkOnce \cup {h[w]}
  /\ sinkTwice' = IF h[w] \in sinkOnce THEN sinkTwice \cup {h[w]} ELSE sinkTwice
  /\ commitLock' = Append(commitLock, w)
  /\ pc' = [pc EXCEPT ![w] = "commitWait"]
  /\ UNCHANGED <<runVars, allocVars, nextToCommit, completedHeights, lockRejected,
                 lastProcessed, reported, writes, setThrew, setFails, h, backoff,
                 rpcFails>>

\* Mutant of sleepDone: after the sleep the worker gives the height up and
\* goes for the next one.
sleepDone_abandon(w) ==
  /\ Running(w) /\ pc[w] = "sleep"
  /\ backoff' = [backoff EXCEPT ![w] = Null]
  /\ h' = [h EXCEPT ![w] = Null]
  /\ pc' = [pc EXCEPT ![w] = "start"]
  /\ UNCHANGED <<runVars, allocVars, commitVars, sinkVars, rpcFails>>

\* await sleep(backoff); backoff = Math.min(backoff * 2, retryMaxBackoffMs)
sleepDone(w) ==
  /\ Running(w) /\ pc[w] = "sleep"
  /\ backoff' = [backoff EXCEPT ![w] = nextBackoff(@)]
  /\ pc' = [pc EXCEPT ![w] = "attempt"]
  /\ UNCHANGED <<runVars, allocVars, commitVars, sinkVars, h, rpcFails>>

\* ------------------------------------------------------ commit tracker
\* Mutant of release: the lock is never handed on.
release_never(q) == q

\* finally { release() } of createMutex, and the settling of a link of
\* main's commitLock chain: the next caller in the chain may go.
release(q) == Tail(q)

\* Mutant of hasNext: the loop runs while anything is pending.
hasNext_anyPending == completedHeights # {}

\* while (completedHeights.has(nextToCommit))
hasNext == nextToCommit \in completedHeights

\* Mutant of commitEnter: the caller does not wait for its turn.
commitEnter_noWait(w) ==
  /\ Running(w) /\ pc[w] = "commitWait"
  /\ ~lockRejected
  /\ completedHeights' = completedHeights \cup {h[w]}
  /\ reported' = reported \cup {h[w]}
  /\ pc' = [pc EXCEPT ![w] = "inCommit"]
  /\ UNCHANGED <<runVars, allocVars, sinkVars, nextToCommit, commitLock, lockRejected,
                 lastProcessed, writes, setThrew, setFails, h, backoff, rpcFails>>

\* Mutant of commitEnter: the reported height is written as the checkpoint at
\* once (the unordered commit of capture-consensus.ts).
commitEnter_naive(w) ==
  /\ Running(w) /\ pc[w] = "commitWait"
  /\ Len(commitLock) > 0 /\ Head(commitLock) = w
  /\ ~lockRejected
  /\ completedHeights' = completedHeights \cup {h[w]}
  /\ reported' = reported \cup {h[w]}
  /\ lastProcessed' = h[w]
  /\ writes' = Append(writes, h[w])
  /\ pc' = [pc EXCEPT ![w] = "inCommit"]
  /\ UNCHANGED <<runVars, allocVars, sinkVars, nextToCommit, commitLock, lockRejected,
                 setThrew, setFails, h, backoff, rpcFails>>

\* The caller at the head of the chain starts fn: completedHeights.add(height)
commitEnter(w) ==
  /\ Running(w) /\ pc[w] = "commitWait"
  /\ Len(commitLock) > 0 /\ Head(commitLock) = w
  /\ ~lockRejected
  /\ completedHeights' = completedHeights \cup {h[w]}
  /\ reported' = reported \cup {h[w]}
  /\ pc' = [pc EXCEPT ![w] = "inCommit"]
  /\ UNCHANGED <<runVars, allocVars, sinkVars, nextToCommit, commitLock, lockRejected,
                 lastProcessed, writes, setThrew, setFails, h, backoff, rpcFails>>

\* main: commitLock.then(fn) on a rejected commitLock never runs fn; the
\* await throws into the worker's catch block.
commitRejected(w) ==
  /\ Running(w) /\ pc[w] = "commitWait"
  /\ Len(commitLock) > 0 /\ Head(commitLock) = w
  /\ lockRejected
  /\ commitLock' = release(commitLock)
  /\ pc' = [pc EXCEPT ![w] = "sleep"]
  /\ UNCHANGED <<runVars, allocVars, sinkVars, nextToCommit, completedHeights,
                 lockRejected, lastProcessed, reported, writes, setThrew, setFails,
                 h, backoff, rpcFails>>

\* Mutant of flushWrite: the cursor is advanced before the write, so the
\* value stored is the advanced cursor.
flushWrite_afterAdvance(w) ==
  /\ Running(w) /\ pc[w] = "inCommit"
  /\ hasNext
  /\ completedHeights' = completedHeights \ {nextToCommit}
  /\ lastProcessed' = nextToCommit + 1
  /\ writes' = Append(writes, nextToCommit + 1)
  /\ nextToCommit' = nextToCommit + 1
  /\ UNCHANGED <<runVars, allocVars, sinkVars, commitLock, lockRejected, reported,
                 setThrew, setFails, pc, h, backoff, rpcFails>>

\* One iteration of the flush loop with a successful checkpoint write.
flushWrite(w) ==
  /\ Running(w) /\ pc[w] = "inCommit"
  /\ hasNext
  /\ completedHeights' = completedHeights \ {nextToCommit}
  /\ lastProcessed' = nextToCommit
  /\ writes' = Append(writes, nextToCommit)
  /\ nextToCommit' = nextToCommit + 1
  /\ UNCHANGED <<runVars, allocVars, sinkVars, commitLock, lockRejected, reported,
                 setThrew, setFails, pc, h, backoff, rpcFails>>

\* Mutant of flushThrow: the lock is not released when fn throws.
flushThrow_keepsLock(w) ==
  /\ Running(w) /\ pc[w] = "inCommit"
  /\ hasNext
  /\ setFails < MaxSetFail
  /\ setFails' = setFails + 1
  /\ setThrew' = TRUE
  /\ completedHeights' = completedHeights \ {nextToCommit}
  /\ lockRejected' = (variant = "main")
  /\ pc' = [pc EXCEPT ![w] = "sleep"]
  /\ UNCHANGED <<runVars, allocVars, sinkVars, nextToCommit, commitLock, lastProcessed,
                 reported, writes, h, backoff, rpcFails>>

\* One iteration in which setLastProcessedBlockHeight throws: the delete has
\* happened, the cursor is not advanced, the lock is released and the error
\* reaches the catch block of the worker awaiting markCompleted.
flushThrow(w) ==
  /\ Running(w) /\ pc[w] = "inCommit"
  /\ hasNext
  /\ setFails < MaxSetFail
  /\ setFails' = setFails + 1
  /\ setThrew' = TRUE
  /\ completedHeights' = completedHeights \ {nextToCommit}
  /\ commitLock' = release(commitLock)
  /\ lockRejected' = (variant = "main")
  /\ pc' = [pc EXCEPT ![w] = "sleep"]
  /\ UNCHANGED <<runVars, allocVars, sinkVars, nextToCommit, lastProcessed, reported,
                 writes, h, backoff, rpcFails>>

\* The loop condition is false: fn returns, the lock is released, the worker
\* breaks out of the retry loop and goes for the next height.
commitExit(w) ==
  /\ Running(w) /\ pc[w] = "inCommit"
  /\ ~hasNext
  /\ commitLock' = release(commitLock)
  /\ pc' = [pc EXCEPT ![w] = "start"]
  /\ h' = [h EXCEPT ![w] = Null]
  /\ backoff' = [backoff EXCEPT ![w] = Null]
  /\ UNCHANGED <<runVars, allocVars, sinkVars, nextToCommit, completedHeights,
                 lockRejected, lastProcessed, reported, writes, setThrew, setFails,
                 rpcFails>>

\* ------------------------------------------------------------- the join
\* await Promise.all(workers): every worker has returned.
resolveRun ==
  /\ runState = "running"
  /\ \A w \in Active : pc[w] = "done"
  /\ runState' = "resolved"
  /\ UNCHANGED <<variant, blockConcurrency, start, end, retryBackoffMs,
                 retryMaxBackoffMs, scanStart, runs, resumed, allocVars, commitVars, sinkVars, pc, h, backoff, rpcFails>>

Next ==
  \/ StartRun
  \/ hardStopRestart
  \/ \E w \in Workers : getNextHeightQueue(w)
  \/ \E w \in Workers : getNextHeightCall(w)
  \/ \E w \in Workers : allocationStep(w)
  \/ \E w \in Workers : attemptFail(w)
  \/ \E w \in Workers : sinkDone(w)
  \/ \E w \in Workers : sleepDone(w)
  \/ \E w \in Workers : commitEnter(w)
  \/ \E w \in Workers : commitRejected(w)
  \/ \E w \in Workers : flushWrite(w)
  \/ \E w \in Workers : flushThrow(w)
  \/ \E w \in Workers : commitExit(w)
  \/ resolveRun

Spec == Init /\ [][Next]_vars

\* The same program under every backoff setting.
BackoffSpec == InitBackoff /\ [][Next]_vars

\* ------------------------------------------- capture-consensus.ts (naive)
\* The script of capture-consensus.ts: the same start resolution, backoff and
\* join, a synchronous allocator, no commit tracker; the worker itself writes
\* the checkpoint for every height divisible by CheckpointEvery, after the
\* fetch and before processXdmEvents.
CheckpointEvery == 100

\* Heights around the first checkpoint height.
NaiveHeights == (CheckpointEvery - 1)..(CheckpointEvery - 2 + MaxHeight)

InitNaive ==
  /\ variant = "naive"
  /\ blockConcurrency \in 1..MaxWorkers
  /\ start \in NaiveHeights /\ end \in NaiveHeights
  /\ retryBackoffMs = 1 /\ retryMaxBackoffMs = MaxBackoff
  /\ lastProcessed = Null
  /\ NoRunYet

\* if (h % 100 === 0)
isCheckpointHeight(x) == x % CheckpointEvery = 0

\* getNextHeight (synchronous) and let backoff = RETRY_BACKOFF_MS
naiveGetNextHeight(w) ==
  /\ Running(w) /\ variant = "naive" /\ pc[w] = "start"
  /\ IF nextHeight > end
       THEN /\ pc' = [pc EXCEPT ![w] = "done"]
            /\ UNCHANGED <<h, backoff, nextHeight>>
       ELSE /\ pc' = [pc EXCEPT ![w] = "attempt"]
            /\ h' = [h EXCEPT ![w] = nextHeight]
            /\ backoff' = [backoff EXCEPT ![w] = retryBackoffMs]
            /\ nextHeight' = nextHeight + 1
  /\ UNCHANGED <<runVars, heightQueue, allocationLock, issued, commitVars,
                 sinkVars, rpcFails>>

\* One of the three awaited RPCs rejects: nothing written yet.
naiveFetchFail(w) ==
  /\ Running(w) /\ variant = "naive" /\ pc[w] = "attempt"
  /\ rpcFails < MaxFail
  /\ rpcFails' = rpcFails + 1
  /\ pc' = [pc EXCEPT ![w] = "sleep"]
  /\ UNCHANGED <<runVars, allocVars, commitVars, sinkVars, h, backoff>>

\* Mutant of naiveCheckpoint: the checkpoint is written only when every lower
\* height of the run has been processed.
naiveCheckpoint_ifPrefixDone(x) ==
  isCheckpointHeight(x) /\ \A y \in scanStart..(x - 1) : y \in sinkOnce

\* The worker holding x writes the checkpoint x: on h % 100 === 0 alone.
naiveCheckpoint(x) == isCheckpointHeight(x)

\* The store after the statement of lines 54-57 for height x.
naiveStore(x) ==
  /\ lastProcessed' = IF naiveCheckpoint(x) THEN x ELSE lastProcessed
  /\ writes' = IF naiveCheckpoint(x) THEN Append(writes, x) ELSE writes

\* The fetch is done: the checkpoint write (if any), then processXdmEvents
\* returns, break, and the worker goes for the next height.
naiveProcess(w) ==
  /\ Running(w) /\ variant = "naive" /\ pc[w] = "attempt"
  /\ naiveStore(h[w])
  /\ sinkOnce' = sinkOnce \cup {h[w]}
  /\ sinkTwice' = IF h[w] \in sinkOnce THEN sinkTwice \cup {h[w]} ELSE sinkTwice
  /\ pc' = [pc EXCEPT ![w] = "start"]
  /\ h' = [h EXCEPT ![w] = Null]
  /\ backoff' = [backoff EXCEPT ![w] = Null]
  /\ UNCHANGED <<runVars, allocVars, nextToCommit, completedHeights, commitLock,
                 lockRejected, reported, setThrew, setFails, rpcFails>>

\* The fetch is done: the checkpoint write (if any), then processXdmEvents
\* throws into the catch block.
naiveSinkThrow(w) ==
  /\ Running(w) /\ variant = "naive" /\ pc[w] = "attempt"
  /\ rpcFails < MaxFail
  /\ rpcFails' = rpcFails + 1
  /\ naiveStore(h[w])
  /\ pc' = [pc EXCEPT ![w] = "sleep"]
  /\ UNCHANGED <<runVars, allocVars, nextToCommit, completedHeights, commitLock,
                 lockRejected, reported, setThrew, setFails, sinkVars, h, backoff>>

\* The fetch is done and setLastProcessedBlockHeight throws into the catch.
naiveWriteThrow(w) ==
  /\ Running(w) /\ variant = "naive" /\ pc[w] = "attempt"
  /\ naiveCheckpoint(h[w])
  /\ setFails < MaxSetFail
  /\ setFails' = setFails + 1
  /\ setThrew' = TRUE
  /\ pc' = [pc EXCEPT ![w] = "sleep"]
  /\ UNCHANGED <<runVars, allocVars, nextToCommit, completedHeights, commitLock,
                 lockRejected, lastProcessed, reported, writes, sinkVars, h, backoff,
                 rpcFails>>

NextNaive ==
  \/ StartRun
  \/ hardStopRestart
  \/ \E w \in Workers : naiveGetNextHeight(w)
  \/ \E w \in Workers : naiveFetchFail(w)
  \/ \E w \in Workers : naiveProcess(w)
  \/ \E w \in Workers : naiveSinkThrow(w)
  \/ \E w \in Workers : naiveWriteThrow(w)
  \/ \E w \in Workers : sleepDone(w)
  \/ resolveRun

NaiveSpec == InitNaive /\ [][NextNaive]_vars

\* ----------------------------------------------------------- liveness
\* One run in which no checkpoint write throws and the process is not
\* killed; the attempts of a height fail at most MaxFail times.  The workers
\* are promise continuations on one event loop: a continuation that can run
\* is run, hence weak fairness of the workers' steps and of the join.
WorkerStep ==
  \/ \E w \in Workers : getNextHeightQueue(w)
  \/ \E w \in Workers : getNextHeightCall(w)
  \/ \E w \in Workers : allocationStep(w)
  \/ \E w \in Workers : sinkDone(w)
  \/ \E w \in Workers : sleepDone(w)
  \/ \E w \in Workers : commitEnter(w)
  \/ \E w \in Workers : flushWrite(w)
  \/ \E w \in Workers : commitExit(w)

NextLive ==
  \/ StartRun
  \/ \E w \in Workers : attemptFail(w)
  \/ WorkerStep
  \/ resolveRun

LiveSpec == Init /\ [][NextLive]_vars /\ WF_vars(WorkerStep) /\ WF_vars(resolveRun)

\* runScan alone, critical sections that may throw included, no process
\* kill: the callers of createMutex.runExclusive under the event loop's
\* scheduling.
InitMutex == Init /\ variant = "runScan"

NextMutex ==
  \/ StartRun
  \/ \E w \in Workers : getNextHeightQueue(w)
  \/ \E w \in Workers : attemptFail(w)
  \/ \E w \in Workers : sinkDone(w)
  \/ \E w \in Workers : sleepDone(w)
  \/ \E w \in Workers : commitEnter(w)
  \/ \E w \in Workers : flushWrite(w)
  \/ \E w \in Workers : flushThrow(w)
  \/ \E w \in Workers : commitExit(w)
  \/ resolveRun

MutexSpec ==
  InitMutex /\ [][NextMutex]_vars /\ WF_vars(WorkerStep) /\ WF_vars(resolveRun)

\* ------------------------------------------------------------- claims
Range == scanStart..end

\* A step that starts a run (a first start, a re-run or a restart).
RunStarts == runs' # runs

\* C1: whenever this run has written the checkpoint, the store holds the
\* last value written, and for every value k it wrote every height of
\* [scanStart, k] has had a successful fetch + Event Sink attempt.
C1_PrefixOnlyCommit ==
  /\ Len(writes) > 0 => lastProcessed = writes[Len(writes)]
  /\ \A i \in 1..Len(writes) : \A x \in scanStart..writes[i] : x \in sinkOnce

\* A worker that reported the cursor's height has written it, with a higher
\* height parked in the pending set by a worker that finished first.
C1_Witness ==
  \E w \in Active :
    /\ pc[w] = "inCommit" /\ h[w] = scanStart
    /\ writes = <<scanStart>>
    /\ scanStart + 1 \in completedHeights

\* The largest k such that every height of [scanStart, k] has been reported
\* to markCompleted (scanStart - 1 when scanStart itself has not been).
prefixEnd ==
  LET top == Max(end, scanStart - 1)
  IN  CHOOSE k \in (scanStart - 1)..top :
        /\ \A x \in scanStart..k : x \in reported
        /\ (k = top \/ (k + 1) \notin reported)

\* The commit state is exact: cursor one past the reported prefix, that
\* prefix's end in the store, nothing written while scanStart is unreported.
Exact ==
  /\ nextToCommit = prefixEnd + 1
  /\ IF prefixEnd >= scanStart THEN lastProcessed = prefixEnd ELSE writes = <<>>

\* C2: markCompleted having been called on distinct heights only, when a call
\* returns the checkpoint is the end of the reported prefix and the cursor is
\* one past it.
C2_PrefixExact ==
  [][ ((\E w \in Workers : pc[w] = "inCommit" /\ pc'[w] = "start") /\ sinkTwice' = {})
        => Exact' ]_vars

\* C3: no height is issued twice, none outside [scanStart, end], none is
\* skipped, and once a caller has been told null every height of the range
\* has been issued.
C3_NoDoubleAllocation ==
  /\ \A x \in Heights : issued[x] <= 1 /\ (issued[x] = 1 => x \in Range)
  /\ \A x \in Range : \A y \in Range : (x < y /\ issued[y] = 1) => issued[x] = 1
  /\ (\E w \in Active : pc[w] = "done") => \A x \in Range : issued[x] = 1

\* Two workers have drained a range of two heights and both were told null.
C3_Witness ==
  /\ blockConcurrency = 2 /\ scanStart < end
  /\ \A w \in Active : pc[w] = "done"
  /\ \A x \in Range : issued[x] = 1

\* The heights of [lo, end] the Event Sink has not processed in this run.
Unprocessed(lo) == {x \in lo..end : x \notin sinkOnce}

\* C4 as stated: when a run is hard-stopped and restarted, the new resolved
\* start is at most every height of the requested range [start, end] that
\* the Event Sink had not processed.
C4_ResumeRequestedRange ==
  [][ (runState = "running" /\ RunStarts)
        => \A x \in Unprocessed(start) : scanStart' <= x ]_vars

\* C4 amended: when a run is hard-stopped and restarted, the new resolved
\* start is at most every height of the stopped run's resolved range
\* [scanStart, end] that the Event Sink had not processed, and not below the
\* stopped run's resolved start; and a run that resolves has processed every
\* height from its resolved start to end.  Hence every height of the stopped
\* run's resolved range is processed in one of the two runs.
C4_ResumeNeverSkips ==
  /\ [][ (runState = "running" /\ RunStarts)
          => /\ \A x \in Unprocessed(scanStart) : scanStart' <= x
             /\ scanStart <= scanStart' ]_vars
  /\ [](runState = "resolved" => Unprocessed(scanStart) = {})

\* A restarted run has resolved although the stopped run had left work: the
\* restart began below end and had to write the checkpoint itself.
C4_Witness ==
  /\ resumed /\ runState = "resolved"
  /\ scanStart < end /\ Len(writes) > 0 /\ lastProcessed = end

\* C5: the stored checkpoint never decreases and is never removed, whatever
\* the run that writes it.
C5_CheckpointMonotonic ==
  [][ lastProcessed # Null => (lastProcessed' # Null /\ lastProcessed' >= lastProcessed) ]_vars

\* A second run that started from a checkpoint above its requested start has
\* written the checkpoint.
C5_Witness ==
  /\ runs = 2 /\ scanStart > start /\ Len(writes) > 0

\* C6: when runScan resolves every worker has terminated, every height of
\* [scanStart, end] has been processed and reported, the pending set is
\* empty and, the range not being empty, the checkpoint is end.
C6_JoinBarrier ==
  (variant = "runScan" /\ runState = "resolved") =>
    /\ \A w \in Active : pc[w] = "done"
    /\ \A x \in Range : x \in sinkOnce /\ x \in reported
    /\ completedHeights = {}
    /\ scanStart <= end => lastProcessed = end

\* C7: under LiveSpec (no checkpoint write throws, each attempt fails finitely
\* often, workers scheduled fairly) a run that is started eventually resolves,
\* and resolves with the checkpoint at end when its range is not empty.
C7_EventualCompletion ==
  (runState = "running")
    ~> (runState = "resolved" /\ (scanStart <= end => lastProcessed = end))

\* Two workers have finished a range of two heights after a failed attempt,
\* the run has resolved and the checkpoint is end.
C7_Witness ==
  /\ runState = "resolved" /\ blockConcurrency = 2
  /\ scanStart < end /\ rpcFails > 0
  /\ writes = <<scanStart, end>> /\ lastProcessed = end

\* C8 as stated: no height is processed successfully by the Event Sink more
\* than once in a run, none outside [scanStart, end] is processed, and in a
\* resolved run every height of [scanStart, end] has been processed.
C8_ExactlyOnce ==
  /\ sinkTwice = {}
  /\ sinkOnce \subseteq Range
  /\ runState = "resolved" => \A x \in Range : x \in sinkOnce

\* C9 as stated: a worker awaiting markCompleted never goes to the retry
\* sleep, and once a checkpoint write has thrown in a run that run processes
\* no further block, writes no further checkpoint and does not resolve.
C9_WriteFailureFatal ==
  [][ /\ \A w \in Workers :
           (pc[w] \in {"commitWait", "inCommit"}) => pc'[w] # "sleep"
      /\ (setThrew /\ ~RunStarts)
           => /\ sinkOnce' = sinkOnce /\ sinkTwice' = sinkTwice
              /\ writes' = writes
              /\ runState' # "resolved" ]_vars

\* C10: within a run, a worker that sleeps after a failed attempt goes on only
\* to another attempt at the same height; a worker asks the allocator again,
\* or lets go of its height, only once the Event Sink has processed the
\* height; and markCompleted is called with the height in hand only after an
\* attempt at it has succeeded.
C10_NeverAbandoned ==
  [][ ~RunStarts => \A w \in Workers :
        /\ pc[w] = "sleep" => (pc'[w] \in {"sleep", "attempt"} /\ h'[w] = h[w])
        /\ (pc[w] # "start" /\ pc'[w] = "start") => h[w] \in sinkOnce
        /\ (h[w] # Null /\ h'[w] # h[w]) => h[w] \in sinkOnce
        /\ (pc[w] # "commitWait" /\ pc'[w] = "commitWait")
             => (h'[w] = h[w] /\ h[w] \in sinkOnce') ]_vars

\* A worker has called markCompleted for a height after a failed attempt at
\* it and a backoff sleep, no checkpoint write having thrown.
C10_Witness ==
  \E w \in Active :
    /\ pc[w] = "commitWait" /\ backoff[w] > retryBackoffMs
    /\ rpcFails > 0 /\ setFails = 0

\* C11 as stated: for every base and cap, within a run: the delay a worker
\* sleeps is its current backoff; after a sleep the next delay is
\* min(2 * previous, cap); no delay slept exceeds the cap; and a worker that
\* takes a new height starts again from the base delay.
C11_BackoffCapped ==
  [][ ~RunStarts => \A w \in Workers :
        /\ (pc[w] # "sleep" /\ pc'[w] = "sleep") => backoff'[w] = backoff[w]
        /\ (pc[w] = "sleep" /\ pc'[w] = "attempt")
             => backoff'[w] = Min(2 * backoff[w], retryMaxBackoffMs)
        /\ pc'[w] = "sleep" => backoff'[w] <= retryMaxBackoffMs
        /\ (pc[w] \in {"start", "allocWait"} /\ pc'[w] = "attempt")
             => backoff'[w] = retryBackoffMs ]_vars

\* C11 amended: the first delay on a height is the base, uncapped; each later
\* delay is min(2 * previous, cap), so it is at most the cap; every delay is
\* at most the cap when the base is; a new height starts again from the base.
C11_BackoffGrowth ==
  [][ ~RunStarts => \A w \in Workers :
        /\ (pc[w] # "sleep" /\ pc'[w] = "sleep") => backoff'[w] = backoff[w]
        /\ (pc[w] = "sleep" /\ pc'[w] = "attempt")
             => /\ backoff'[w] = Min(2 * backoff[w], retryMaxBackoffMs)
                /\ backoff'[w] <= retryMaxBackoffMs
        /\ (pc'[w] = "sleep" /\ retryBackoffMs <= retryMaxBackoffMs)
             => backoff'[w] <= retryMaxBackoffMs
        /\ (pc[w] \in {"start", "allocWait"} /\ pc'[w] = "attempt")
             => backoff'[w] = retryBackoffMs ]_vars

\* A worker sleeps the cap after two doublings of which the second was cut
\* (base 1, cap 3: delays 1, 2, 3).
C11_Witness ==
  \E w \in Active :
    /\ pc[w] = "sleep" /\ backoff[w] = retryMaxBackoffMs
    /\ 2 * retryBackoffMs < retryMaxBackoffMs
    /\ retryMaxBackoffMs < 4 * retryBackoffMs

\* C12: a run's resolved start is the requested start when the store is
\* empty and the larger of requested start and checkpoint otherwise, so a
\* checkpoint c with start <= c <= end makes the run start at c itself; no
\* height below the resolved start is allocated or processed; and a resolved
\* run has processed its resolved start (height c again) when it is in range.
C12_StartResolution ==
  /\ [][ RunStarts =>
           /\ lastProcessed = Null => scanStart' = start
           /\ (lastProcessed # Null /\ lastProcessed >= start)
                => scanStart' = lastProcessed
           /\ (lastProcessed # Null /\ lastProcessed < start)
                => scanStart' = start
           /\ nextToCommit' = scanStart' ]_vars
  /\ [](\A x \in Heights :
          (issued[x] > 0 \/ x \in sinkOnce \/ (\E w \in Workers : h[w] = x))
            => x >= scanStart)
  /\ []((runState = "resolved" /\ scanStart <= end) => scanStart \in sinkOnce)

\* A run that resumed from a checkpoint c above its requested start has
\* processed height c again, before writing anything.
C12_Witness ==
  /\ runState = "running"
  /\ start < scanStart /\ scanStart <= end
  /\ lastProcessed = scanStart /\ writes = <<>>
  /\ scanStart \in sinkOnce

\* C13: a run whose resolved start is above end issues no height, makes no
\* Block Source or Event Sink call, reports nothing and writes no checkpoint
\* (the store is left as it was); its workers are spawned, each is told null
\* and returns, and the run resolves.
C13_EmptyRange ==
  /\ []((runState # "idle" /\ scanStart > end) =>
          /\ \A x \in Heights : issued[x] = 0
          /\ sinkOnce = {} /\ reported = {} /\ writes = <<>>
          /\ rpcFails = 0
          /\ \A w \in Active : pc[w] \in {"start", "allocWait", "done"} /\ h[w] = Null)
  /\ [][ (runState # "idle" /\ scanStart > end /\ ~RunStarts)
           => lastProcessed' = lastProcessed ]_vars
  /\ (runState = "running" /\ scanStart > end)
       ~> (runState = "resolved" /\ \A w \in Active : pc[w] = "done")

\* Two workers over a range emptied by a checkpoint above end have returned
\* and the run has resolved.
C13_Witness ==
  /\ runState = "resolved" /\ blockConcurrency = 2
  /\ lastProcessed # Null /\ lastProcessed > end /\ start <= end
  /\ scanStart > end

\* C14 as stated: a markCompleted call for a height below the commit cursor
\* leaves the pending set as it was and finds nothing to flush (so cursor and
\* checkpoint stay), and a call for a height already in the pending set
\* leaves the set as it was.
C14_DuplicateNoOp ==
  [][ \A w \in Workers :
        (pc[w] = "commitWait" /\ pc'[w] = "inCommit")
          => /\ h[w] < nextToCommit
                  => /\ completedHeights' = completedHeights
                     /\ nextToCommit' \notin completedHeights'
                     /\ nextToCommit' = nextToCommit
                     /\ lastProcessed' = lastProcessed
             /\ h[w] \in completedHeights
                  => completedHeights' = completedHeights ]_vars

\* C15: within a run the i-th checkpoint value written is scanStart + i - 1
\* (so the values are consecutive, increasing and never repeated) and the
\* cursor is one past the last value written; each write stores the cursor
\* as it was before the step and advances it by one; the cursor never moves
\* otherwise.
C15_WriteSequence ==
  /\ [](runState # "idle" =>
          /\ \A i \in 1..Len(writes) : writes[i] = scanStart + i - 1
          /\ nextToCommit = scanStart + Len(writes))
  /\ [][ ~RunStarts =>
           IF writes' # writes
             THEN /\ writes' = Append(writes, nextToCommit)
                  /\ lastProcessed' = nextToCommit
                  /\ nextToCommit' = nextToCommit + 1
             ELSE /\ nextToCommit' = nextToCommit
                  /\ lastProcessed' = lastProcessed ]_vars

\* Two workers have written two consecutive checkpoints although a write
\* threw in between and was repeated.
C15_Witness ==
  /\ blockConcurrency = 2 /\ setThrew
  /\ writes = <<scanStart, scanStart + 1>>
  /\ nextToCommit = scanStart + 2

\* C16 as stated: while no markCompleted critical section is in progress,
\* every member of the pending set is above the commit cursor and at most
\* end, has been processed by the Event Sink, and is above the persisted
\* checkpoint.
C16_PendingInvariant ==
  (runState # "idle" /\ \A w \in Workers : pc[w] # "inCommit") =>
    \A x \in completedHeights :
      /\ x > nextToCommit /\ x <= end
      /\ x \in sinkOnce
      /\ lastProcessed # Null => x > lastProcessed

\* C17: in the naive variant a worker that has fetched a height divisible by
\* CheckpointEvery stores that height as the checkpoint, whatever the other
\* heights' progress, and the store changes in no other way within a run; a
\* height not divisible is never stored.
C17_NaiveUnconditional ==
  [][ ~RunStarts =>
        /\ \A w \in Workers :
             (pc[w] = "attempt" /\ h[w] % CheckpointEvery = 0 /\ rpcFails' = rpcFails
                /\ pc'[w] = "start")
               => (lastProcessed' = h[w] /\ writes' = Append(writes, h[w]))
        /\ lastProcessed' # lastProcessed
             => \E w \in Workers :
                  /\ pc[w] = "attempt" /\ lastProcessed' = h[w]
                  /\ h[w] % CheckpointEvery = 0 ]_vars

\* Two workers, no failure, no restart: the checkpoint is a height of the run
\* while a lower height of the run has not been processed.
C17_Witness ==
  /\ variant = "naive" /\ blockConcurrency >= 2
  /\ rpcFails = 0 /\ setFails = 0 /\ ~resumed
  /\ Len(writes) > 0 /\ lastProcessed \in Range
  /\ \E x \in scanStart..(lastProcessed - 1) : x \notin sinkOnce

\* C18: at most one worker is inside the markCompleted critical section, and
\* it is the caller at the head of the lock's chain; within a run the commit
\* cursor, the pending set and the store change only in a step of the worker
\* that is in (or just entering) the critical section.
C18_ExclusiveCommit ==
  /\ [](\A v \in Workers : \A w \in Workers :
          (pc[v] = "inCommit" /\ pc[w] = "inCommit") => v = w)
  /\ [](\A w \in Workers :
          pc[w] = "inCommit" => (Len(commitLock) > 0 /\ Head(commitLock) = w))
  /\ [][ (~RunStarts /\ (nextToCommit' # nextToCommit
                          \/ completedHeights' # completedHeights
                          \/ lastProcessed' # lastProcessed))
           => \E w \in Workers :
                /\ Head(commitLock) = w
                /\ pc[w] \in {"commitWait", "inCommit"}
                /\ pc[w] = "commitWait" => pc'[w] = "inCommit"
                /\ \A v \in Workers \ {w} : pc[v] # "inCommit" /\ pc'[v] = pc[v] ]_vars

\* One worker is flushing inside the critical section while the other has
\* called markCompleted and waits for the lock.
C18_Witness ==
  \E v \in Active : \E w \in Active :
    /\ pc[v] = "inCommit" /\ pc[w] = "commitWait"
    /\ commitLock = <<v, w>>
    /\ nextToCommit \in completedHeights

\* C19 as stated: when a checkpoint write throws inside markCompleted, every
\* height reported so far that is at or above the commit cursor, other than
\* the failed call's own height (which its worker reports again), is still in
\* the pending set; so a run that resolves has brought the checkpoint to end.
C19_NoCompletionLost ==
  /\ [][ \A w \in Workers :
           (pc[w] = "inCommit" /\ pc'[w] = "sleep")
             => \A x \in reported' \ {h[w]} :
                  x >= nextToCommit' => x \in completedHeights' ]_vars
  /\ []((runState = "resolved" /\ scanStart <= end) => lastProcessed = end)

\* C20: the chain of createMutex only grows at its tail, by the caller of
\* runExclusive, and only shrinks at its head, when the caller whose fn ran
\* leaves it by return or by throw; fn starts only for the head of the chain
\* (so bodies run one at a time, in call order); and every caller waiting in
\* the chain eventually runs its fn.
C20_MutexOrderLive ==
  /\ [][ ~RunStarts =>
           /\ commitLock' # commitLock =>
                \/ \E w \in Workers :
                     /\ commitLock' = Append(commitLock, w)
                     /\ pc[w] = "attempt" /\ pc'[w] = "commitWait"
                \/ /\ commitLock' = Tail(commitLock)
                   /\ pc[Head(commitLock)] = "inCommit"
                   /\ pc'[Head(commitLock)] \in {"start", "sleep"}
           /\ \A w \in Workers :
                (pc[w] = "inCommit" /\ pc'[w] # "inCommit")
                  => commitLock' = Tail(commitLock)
           /\ \A w \in Workers :
                (pc[w] # "inCommit" /\ pc'[w] = "inCommit")
                  => /\ Head(commitLock) = w
                     /\ \A v \in Workers : pc[v] # "inCommit" ]_vars
  /\ \A w \in Workers : (pc[w] = "commitWait") ~> (pc[w] = "inCommit")

\* A critical section has thrown (its worker sleeps the backoff) and the
\* caller that waited behind it is running its fn.
C20_Witness ==
  \E v \in Active : \E w \in Active :
    /\ v # w /\ rpcFails = 0 /\ setThrew
    /\ pc[w] = "sleep" /\ pc[v] = "inCommit"
    /\ commitLock = <<v>>

====
